---- MODULE Spec2Model ----
(***************************************************************************)
(* Model of scripts/validate_openclaw_config.py: the dotenv loader, the    *)
(* placeholder resolver and the main validation flow.                      *)
(*                                                                         *)
(* Python strings are sequences of one-character strings, so that the      *)
(* regular expression, strip(), split() and the slices are computed and    *)
(* not assumed.  A Python dict is a sequence of <<key, value>> pairs in    *)
(* insertion order.  A parsed YAML value is a tagged record.               *)
(***************************************************************************)
EXTENDS Integers, Sequences, FiniteSets, TLC

VARIABLES
    pc,         \* position of the running function
    envFile,    \* .env: NoFile or File(the sequence of its raw lines)
    cfgFile,    \* .openclaw/config.yaml: NoFile or File(the parsed document)
    environ,    \* os.environ: function from names to values
    environ0,   \* os.environ as it was when the process started
    dotenv,     \* the dict returned by load_dotenv
    cfg,        \* the value returned by load_config
    cfg0,       \* the value load_config returned, as it was when it returned
    idx,        \* number of providers already visited by the loop of main
    resolved,   \* the last value returned by resolve_placeholders
    output,     \* the lines printed so far
    exitStatus, \* process exit status, NoStatus while running
    arg,        \* input of the function under test: a raw line, a string
    before      \* load_dotenv under test: the dict before the last line was read

vars == <<pc, envFile, cfgFile, environ, environ0, dotenv, cfg, cfg0,
          idx, resolved, output, exitStatus, arg, before>>

-----------------------------------------------------------------------------
(* Bounds *)

MaxLineLen == 3     \* characters of a .env line (load_dotenv under test)
MaxLines == 2       \* lines of a .env file (load_dotenv under test)
MaxParts == 3       \* pieces of a string given to resolve_placeholders under test
MaxProviders == 2   \* providers of a config

-----------------------------------------------------------------------------
(* Characters and strings *)

Upper == {"A","B","C","D","E","F","G","H","I","J","K","L","M","N","O","P","Q",
          "R","S","T","U","V","W","X","Y","Z"}
Lower == {"a","b","c","d","e","f","g","h","i","j","k","l","m","n","o","p","q",
          "r","s","t","u","v","w","x","y","z"}
Digit == {"0","1","2","3","4","5","6","7","8","9"}

\* the character class [A-Za-z0-9_] of PLACEHOLDER_RE
NameChar == Upper \cup Lower \cup Digit \cup {"_"}

\* the characters str.strip() removes that occur in the model
Whitespace == {" "}

NoFile == [exists |-> FALSE]
File(content) == [exists |-> TRUE, content |-> content]
NoStatus == -1

RECURSIVE SeqsUpTo(_, _)
SeqsUpTo(S, n) ==
    IF n = 0 THEN {<<>>}
    ELSE LET shorter == SeqsUpTo(S, n - 1)
         IN  shorter \cup {Append(s, c) : s \in {t \in shorter : Len(t) = n - 1}, c \in S}

StartsWith(s, p) == Len(s) >= Len(p) /\ SubSeq(s, 1, Len(p)) = p
EndsWith(s, p) == Len(s) >= Len(p) /\ SubSeq(s, Len(s) - Len(p) + 1, Len(s)) = p

\* s[a:b] of Python for 0 <= a and b given as a count from the end (s[a:-b])
Slice(s, a, b) == SubSeq(s, a + 1, Len(s) - b)

RECURSIVE LStrip(_)
LStrip(s) == IF s # <<>> /\ Head(s) \in Whitespace THEN LStrip(Tail(s)) ELSE s

RECURSIVE RStrip(_)
RStrip(s) ==
    IF s # <<>> /\ s[Len(s)] \in Whitespace THEN RStrip(SubSeq(s, 1, Len(s) - 1)) ELSE s

\* str.strip()
Strip(s) == LStrip(RStrip(s))

\* index of the first occurrence of character c in s, 0 when there is none
RECURSIVE FindFrom(_, _, _)
FindFrom(s, c, i) ==
    IF i > Len(s) THEN 0 ELSE IF s[i] = c THEN i ELSE FindFrom(s, c, i + 1)

Find(s, c) == FindFrom(s, c, 1)

\* str.upper() on the letters of the model
UpperOf == [c \in Lower |->
    CASE c = "a" -> "A" [] c = "b" -> "B" [] c = "c" -> "C" [] c = "d" -> "D"
      [] c = "e" -> "E" [] c = "f" -> "F" [] c = "g" -> "G" [] c = "h" -> "H"
      [] c = "i" -> "I" [] c = "j" -> "J" [] c = "k" -> "K" [] c = "l" -> "L"
      [] c = "m" -> "M" [] c = "n" -> "N" [] c = "o" -> "O" [] c = "p" -> "P"
      [] c = "q" -> "Q" [] c = "r" -> "R" [] c = "s" -> "S" [] c = "t" -> "T"
      [] c = "u" -> "U" [] c = "v" -> "V" [] c = "w" -> "W" [] c = "x" -> "X"
      [] c = "y" -> "Y" [] OTHER -> "Z"]

StrUpper(s) == [i \in 1..Len(s) |-> IF s[i] \in Lower THEN UpperOf[s[i]] ELSE s[i]]

-----------------------------------------------------------------------------
(* Python dicts: sequences of <<key, value>> pairs, keys distinct *)

DictKeys(d) == {d[i][1] : i \in 1..Len(d)}

HasKey(d, k) == k \in DictKeys(d)

DictIndex(d, k) == CHOOSE i \in 1..Len(d) : d[i][1] = k

\* d.get(k, default)
DictGet(d, k, default) == IF HasKey(d, k) THEN d[DictIndex(d, k)][2] ELSE default

\* d[k] = v : an existing key keeps its place, a new key goes last
DictSet(d, k, v) ==
    IF HasKey(d, k) THEN [d EXCEPT ![DictIndex(d, k)] = <<k, v>>]
    ELSE Append(d, <<k, v>>)

\* os.getenv(name, default)
GetEnv(env, name, default) == IF name \in DOMAIN env THEN env[name] ELSE default

\* os.environ[k] = v
SetEnv(env, k, v) == [n \in DOMAIN env \cup {k} |-> IF n = k THEN v ELSE env[n]]

-----------------------------------------------------------------------------
(* load_dotenv *)

DQ == "\""
SQ == "'"

\* the quote stripping of one value
StripQuotes(v) ==
    IF (StartsWith(v, <<DQ>>) /\ EndsWith(v, <<DQ>>))
       \/ (StartsWith(v, <<SQ>>) /\ EndsWith(v, <<SQ>>))
    THEN Slice(v, 1, 1)
    ELSE v

\* the lines the loop skips
SkipLine(line) ==
    \/ line = <<>>
    \/ StartsWith(line, <<"#">>)
    \/ Find(line, "=") = 0

\* one iteration of the loop over the lines
LoadLine(env, raw) ==
    LET line == Strip(raw)
    IN  IF SkipLine(line) THEN env
        ELSE LET p == Find(line, "=")
                 k == Strip(SubSeq(line, 1, p - 1))
                 v == Strip(SubSeq(line, p + 1, Len(line)))
             IN  DictSet(env, k, StripQuotes(v))

RECURSIVE LoadLines(_, _)
LoadLines(env, lines) ==
    IF lines = <<>> THEN env ELSE LoadLines(LoadLine(env, Head(lines)), Tail(lines))

load_dotenv(file) == IF ~file.exists THEN <<>> ELSE LoadLines(<<>>, file.content)

-----------------------------------------------------------------------------
(* Parsed YAML values *)

None == [t |-> "none"]
Str(s) == [t |-> "str", s |-> s]
Num(n) == [t |-> "num", n |-> n]
List(items) == [t |-> "list", items |-> items]
Dict(items) == [t |-> "dict", items |-> items]

IsStr(x) == x.t = "str"

\* truth value of a Python object
Truthy(x) ==
    CASE x.t = "none" -> FALSE
      [] x.t = "str"  -> x.s # <<>>
      [] x.t = "num"  -> x.n # 0
      [] OTHER        -> x.items # <<>>

\* obj.get(key) and obj.get(key, default) of a parsed mapping
Get(obj, key) == DictGet(obj.items, key, None)
GetOr(obj, key, default) == DictGet(obj.items, key, default)

-----------------------------------------------------------------------------
(* resolve_placeholders *)

\* first index from j on whose character is outside [A-Za-z0-9_]
RECURSIVE NameEnd(_, _)
NameEnd(s, j) ==
    IF j <= Len(s) /\ s[j] \in NameChar THEN NameEnd(s, j + 1) ELSE j

\* PLACEHOLDER_RE matched at index i: the index of the closing brace, or 0
MatchAt(s, i) ==
    IF i + 3 <= Len(s) /\ s[i] = "$" /\ s[i + 1] = "{"
    THEN LET e == NameEnd(s, i + 2)
         IN  IF e > i + 2 /\ e <= Len(s) /\ s[e] = "}" THEN e ELSE 0
    ELSE 0

\* repl with the two lookups in the other order
repl_EnvironFirst(name, token, env_map, env) ==
    GetEnv(env, name, DictGet(env_map, name, token))

\* repl(m): the dotenv mapping first, the process environment second, the token last
repl(name, token, env_map, env) == DictGet(env_map, name, GetEnv(env, name, token))

\* PLACEHOLDER_RE.sub(repl, s) from index i on: a leftmost scan, the
\* replacement text is not scanned again
RECURSIVE SubFrom(_, _, _, _)
SubFrom(s, i, env_map, env) ==
    IF i > Len(s) THEN <<>>
    ELSE LET e == MatchAt(s, i)
         IN  IF e = 0 THEN <<s[i]>> \o SubFrom(s, i + 1, env_map, env)
             ELSE repl(SubSeq(s, i + 2, e - 1), SubSeq(s, i, e), env_map, env)
                  \o SubFrom(s, e + 1, env_map, env)

resolve_str(s, env_map, env) == SubFrom(s, 1, env_map, env)

RECURSIVE resolve_placeholders(_, _, _)
resolve_placeholders(obj, env_map, env) ==
    CASE obj.t = "str"  -> Str(resolve_str(obj.s, env_map, env))
      [] obj.t = "dict" ->
            Dict([i \in 1..Len(obj.items) |->
                    <<obj.items[i][1], resolve_placeholders(obj.items[i][2], env_map, env)>>])
      [] obj.t = "list" ->
            List([i \in 1..Len(obj.items) |-> resolve_placeholders(obj.items[i], env_map, env)])
      [] OTHER -> obj

\* a resolver that writes the resolved values into the object it was given
arg_ResolvedInPlace(obj, result) == result

\* what the call leaves in the object it was given: the comprehensions build
\* new containers, the argument is not written
arg_after_resolve(obj, result) == obj

-----------------------------------------------------------------------------
(* main: helpers *)

\* one printed line: its kind, the provider it belongs to, the value shown
Line(k, prov, v) == [k |-> k, prov |-> prov, v |-> v]

Dots == <<".", ".", ".">>
Stars == <<"*", "*", "*", "*">>
PlaceholderPrefix == <<"$", "{">>
PlaceholderSuffix == <<"}">>
OpenclawPrefix == <<"O", "P", "E", "N", "C", "L", "A", "W", "_">>
ApiKeySuffix == <<"_", "A", "P", "I", "_", "K", "E", "Y">>

\* the injection loop over dotenv.items() from entry i on; assigning to
\* os.environ under an empty name raises OSError, which ends the process
RECURSIVE Inject(_, _, _)
Inject(env, d, i) ==
    IF i > Len(d) THEN [env |-> env, raised |-> FALSE]
    ELSE LET k == d[i][1]
             v == d[i][2]
         IN  IF GetEnv(env, k, <<>>) # <<>> THEN Inject(env, d, i + 1)
             ELSE IF k = <<>> THEN [env |-> env, raised |-> TRUE]
             ELSE Inject(SetEnv(env, k, v), d, i + 1)

\* the mask with the length test off by one
MaskKey_AtLeast8(apiKey) ==
    IF Len(apiKey) >= 8
    THEN SubSeq(apiKey, 1, 4) \o Dots \o SubSeq(apiKey, Len(apiKey) - 3, Len(apiKey))
    ELSE Stars

\* masked = apiKey[:4] + "..." + apiKey[-4:] if len(apiKey) > 8 else "****"
MaskKey(apiKey) ==
    IF Len(apiKey) > 8
    THEN SubSeq(apiKey, 1, 4) \o Dots \o SubSeq(apiKey, Len(apiKey) - 3, Len(apiKey))
    ELSE Stars

\* the test without the check of the unresolved-placeholder prefix
KeyInjected_NoPrefixTest(apiKey) == Truthy(apiKey) /\ IsStr(apiKey)

\* the test that sends a resolved apiKey to the masked line
KeyInjected(apiKey) ==
    Truthy(apiKey) /\ IsStr(apiKey) /\ ~StartsWith(apiKey.s, PlaceholderPrefix)

\* the test main uses for "is a placeholder" on the original apiKey and on
\* the resolved primary model
LooksLikePlaceholder(x) ==
    IsStr(x) /\ StartsWith(x.s, PlaceholderPrefix) /\ EndsWith(x.s, PlaceholderSuffix)

ConventionName(name) == OpenclawPrefix \o StrUpper(name) \o ApiKeySuffix

\* env_var_candidates
Candidates(name, orig_apiKey) ==
    (IF LooksLikePlaceholder(orig_apiKey) THEN <<Slice(orig_apiKey.s, 2, 1)>> ELSE <<>>)
    \o <<ConventionName(name)>>

\* if os.getenv(ev): the variable is set to a non-empty value
EnvSet(env, ev) == GetEnv(env, ev, <<>>) # <<>>

\* the loop over the candidates: the line it prints
RECURSIVE CheckCandidates(_, _, _, _)
CheckCandidates(env, name, cands, i) ==
    IF i > Len(cands)
    THEN Line("warning", name, List([j \in 1..Len(cands) |-> Str(cands[j])]))
    ELSE IF EnvSet(env, cands[i]) THEN Line("env_present", name, Str(cands[i]))
    ELSE CheckCandidates(env, name, cands, i + 1)

\* the apiKey part of one loop iteration: the status line it prints
ApiKeyLine(env, env_map, name, info_after, resolved_info) ==
    LET apiKey == Get(resolved_info, "apiKey")
    IN  IF KeyInjected(apiKey) THEN Line("masked", name, Str(MaskKey(apiKey.s)))
        ELSE CheckCandidates(env, name, Candidates(name, Get(info_after, "apiKey")), 1)

\* the lines printed for a provider before its apiKey is looked at
InfoLines(name, info) ==
    LET got == Get(info, "models")
        models == IF Truthy(got) THEN got ELSE List(<<>>)
    IN  << Line("provider", name, Str(name)),
           Line("baseUrl", name, Get(info, "baseUrl")),
           Line("api", name, Get(info, "api")),
           Line("models", name, Num(Len(models.items))) >>
        \o [j \in 1..Len(models.items) |->
              Line("model", name,
                   List(<<Get(models.items[j], "id"), Get(models.items[j], "name")>>))]

\* the lines of the agents section
AgentsLines(env, env_map, agents) ==
    IF ~Truthy(agents) THEN <<>>
    ELSE LET defaults == GetOr(agents, "defaults", Dict(<<>>))
             model_section == GetOr(defaults, "model", Dict(<<>>))
             primary == Get(model_section, "primary")
             resolved_primary == resolve_placeholders(primary, env_map, env)
         IN  <<Line("agents_found", <<>>, None)>> \o
             IF ~Truthy(primary) THEN <<Line("no_primary", <<>>, None)>>
             ELSE IF LooksLikePlaceholder(resolved_primary)
                  THEN IF EnvSet(env, Slice(resolved_primary.s, 2, 1))
                       THEN <<Line("primary_env", <<>>, Str(Slice(resolved_primary.s, 2, 1)))>>
                       ELSE <<Line("primary_warning", <<>>, resolved_primary)>>
                  ELSE <<Line("primary", <<>>, resolved_primary)>>

\* the providers mapping of a config with provider i replaced by info
WithProviderInfo(c, i, info) ==
    LET providers == Get(c, "providers")
        p == DictIndex(c.items, "providers")
    IN  Dict([c.items EXCEPT ![p] =
                <<"providers",
                  Dict([providers.items EXCEPT ![i] = <<providers.items[i][1], info>>])>>])

-----------------------------------------------------------------------------
(* Inputs of main *)

KEY == <<"K", "E", "Y">>
ALT == <<"A", "L", "T">>
Token(name) == PlaceholderPrefix \o name \o PlaceholderSuffix
Assign(k, v) == k \o <<"=">> \o v

acme == <<"a", "c", "m", "e">>
secret == <<"s", "k", "_", "1", "2", "3", "4", "5", "6", "7", "8", "9", "0">>
short == <<"s", "h", "o", "r", "t">>
eight == <<"a", "b", "c", "d", "e", "f", "g", "h">>
nine == <<"a", "b", "c", "d", "e", "f", "g", "h", "i">>
gpt4 == <<"g", "p", "t", "-", "4">>
odd == <<"$", "{", "a", "-", "b", "}">>
pv == <<"p", "v">>

\* name of the i-th provider of a config
ProviderName(i) ==
    IF i = 1 THEN acme
    ELSE IF i = 2 THEN <<"B", "e", "t", "a">>
    ELSE <<"p", CHOOSE d \in Digit : d = ToString(i)>>

\* .env files main is run with
EnvFiles ==
    { NoFile,
      File(<< Assign(KEY, secret) >>),
      File(<< <<"#", " ", "c">>, Assign(KEY, <<>>) >>),
      File(<< Assign(KEY, <<SQ>> \o short \o <<SQ>>) >>),
      File(<< Assign(KEY, Token(ALT)), Assign(ALT, pv) >>),
      File(<< Assign(ALT, pv), Assign(<<>>, pv) >>) }

\* process environments main is started in
Environs ==
    LET both == {KEY, ConventionName(acme)}
    IN  { [n \in S |-> IF n = KEY THEN v ELSE pv] : S \in SUBSET both, v \in {<<>>, pv} }

\* apiKey entries of a provider record; NoEntry stands for a record without the key
NoEntry == [t |-> "noentry"]
ApiKeys ==
    { NoEntry, Str(<<>>), Num(5), Str(Token(KEY)), Str(<<"x">> \o Token(KEY)),
      Str(odd), Str(eight), Str(nine) }

\* the record of the i-th provider with the given apiKey entry; only the first
\* provider has a baseUrl and a model list
ProviderInfo(i, apiKey) ==
    Dict((IF i = 1
          THEN << <<"baseUrl", Str(<<"u">>)>>,
                  <<"models", List(<< Dict(<< <<"id", Str(<<"m">>)>> >>), Dict(<<>>) >>)>> >>
          ELSE << <<"api", Num(i)>> >>)
         \o (IF apiKey = NoEntry THEN <<>> ELSE << <<"apiKey", apiKey>> >>))

\* providers mappings of n providers
ProviderMaps(n) ==
    { Dict([i \in 1..n |-> <<ProviderName(i), ProviderInfo(i, ks[i])>>]) : ks \in [1..n -> ApiKeys] }

AgentsOf(primary) ==
    Dict(<< <<"defaults", Dict(<< <<"model", Dict(<< <<"primary", primary>> >>)>> >>)>> >>)

\* agents entries of a config
AgentsEntries ==
    { NoEntry, Dict(<<>>), Dict(<< <<"defaults", Dict(<<>>)>> >>),
      AgentsOf(Str(gpt4)), AgentsOf(Str(Token(KEY))), AgentsOf(Str(odd)) }

\* parsed documents: the empty document, and mappings with or without a
\* providers entry and an agents entry
Documents ==
    {None} \cup
    { Dict((IF p = NoEntry THEN <<>> ELSE << <<"providers", p>> >>)
           \o (IF a = NoEntry THEN <<>> ELSE << <<"agents", a>> >>)) :
        p \in {NoEntry, Dict(<<>>)} \cup UNION {ProviderMaps(n) : n \in 1..MaxProviders},
        a \in AgentsEntries }

-----------------------------------------------------------------------------
(* main *)

Init ==
    /\ pc = "start"
    /\ envFile \in EnvFiles
    /\ cfgFile \in {NoFile} \cup {File(doc) : doc \in Documents}
    /\ environ \in Environs
    /\ environ0 = environ
    /\ dotenv = <<>>
    /\ cfg = None
    /\ cfg0 = None
    /\ idx = 0
    /\ resolved = None
    /\ output = <<>>
    /\ exitStatus = NoStatus
    /\ arg = <<>>
    /\ before = <<>>

\* dotenv = load_dotenv(ENV_PATH) and the injection loop
LoadEnvironment ==
    /\ pc = "start"
    /\ LET d == load_dotenv(envFile)
           r == Inject(environ, d, 1)
       IN  /\ dotenv' = d
           /\ environ' = r.env
           /\ IF r.raised
              THEN pc' = "raised" /\ exitStatus' = 1
              ELSE pc' = "load_config" /\ exitStatus' = exitStatus
    /\ UNCHANGED <<envFile, cfgFile, environ0, cfg, cfg0, idx, resolved, output, arg, before>>

\* cfg = load_config(CONFIG_PATH); if cfg is None: sys.exit(1)
LoadConfig ==
    /\ pc = "load_config"
    /\ LET loaded == IF ~cfgFile.exists THEN None ELSE cfgFile.content
       IN  /\ cfg' = loaded
           /\ cfg0' = loaded
           /\ output' = IF ~cfgFile.exists
                        THEN Append(output, Line("not_found", <<>>, None))
                        ELSE output
           /\ IF loaded = None
              THEN pc' = "exited" /\ exitStatus' = 1
              ELSE pc' = "check_providers" /\ exitStatus' = exitStatus
    /\ UNCHANGED <<envFile, cfgFile, environ, environ0, dotenv, idx, resolved, arg, before>>

\* the check that takes only a missing providers key as fatal
CheckProviders_OnlyMissing ==
    /\ pc = "check_providers"
    /\ IF Get(cfg, "providers") = None
       THEN /\ output' = Append(output, Line("no_providers", <<>>, None))
            /\ pc' = "exited"
            /\ exitStatus' = 1
       ELSE /\ output' = Append(output, Line("providers_found", <<>>, None))
            /\ pc' = "providers"
            /\ exitStatus' = exitStatus
    /\ UNCHANGED <<envFile, cfgFile, environ, environ0, dotenv, cfg, cfg0, idx, resolved,
                   arg, before>>

\* providers = cfg.get("providers"); if not providers: print, sys.exit(1)
CheckProviders ==
    /\ pc = "check_providers"
    /\ IF ~Truthy(Get(cfg, "providers"))
       THEN /\ output' = Append(output, Line("no_providers", <<>>, None))
            /\ pc' = "exited"
            /\ exitStatus' = 1
       ELSE /\ output' = Append(output, Line("providers_found", <<>>, None))
            /\ pc' = "providers"
            /\ exitStatus' = exitStatus
    /\ UNCHANGED <<envFile, cfgFile, environ, environ0, dotenv, cfg, cfg0, idx, resolved,
                   arg, before>>

\* one iteration of the loop over providers.items()
VisitProvider ==
    /\ pc = "providers"
    /\ idx < Len(Get(cfg, "providers").items)
    /\ LET entry == Get(cfg, "providers").items[idx + 1]
           name == entry[1]
           info == entry[2]
           resolved_info == resolve_placeholders(info, dotenv, environ)
           info_after == arg_after_resolve(info, resolved_info)
       IN  /\ resolved' = resolved_info
           /\ cfg' = WithProviderInfo(cfg, idx + 1, info_after)
           /\ output' = output \o InfoLines(name, info)
                        \o <<ApiKeyLine(environ, dotenv, name, info_after, resolved_info)>>
    /\ idx' = idx + 1
    /\ UNCHANGED <<pc, envFile, cfgFile, environ, environ0, dotenv, cfg0, exitStatus,
                   arg, before>>

\* the agents section and the completion line
ValidateAgents ==
    /\ pc = "providers"
    /\ idx = Len(Get(cfg, "providers").items)
    /\ output' = output \o AgentsLines(environ, dotenv, Get(cfg, "agents"))
                 \o <<Line("complete", <<>>, None)>>
    /\ pc' = "done"
    /\ exitStatus' = 0
    /\ UNCHANGED <<envFile, cfgFile, environ, environ0, dotenv, cfg, cfg0, idx, resolved,
                   arg, before>>

Next ==
    \/ LoadEnvironment
    \/ LoadConfig
    \/ CheckProviders
    \/ VisitProvider
    \/ ValidateAgents

Spec == Init /\ [][Next]_vars

-----------------------------------------------------------------------------
(* Vocabulary of the properties of main *)

StatusKinds == {"masked", "env_present", "warning"}
PrimaryKinds == {"no_primary", "primary_env", "primary_warning", "primary"}
FatalKinds == {"not_found", "no_providers"}

\* load_config has returned and main went on or exited
ConfigLoaded == pc \in {"check_providers", "providers", "done", "exited"}

\* a placeholder token ${NAME} occupies s[i..e]
TokenAt(s, i, e) ==
    /\ i >= 1 /\ e <= Len(s) /\ e >= i + 3
    /\ s[i] = "$" /\ s[i + 1] = "{" /\ s[e] = "}"
    /\ \A j \in (i + 2)..(e - 1) : s[j] \in NameChar

\* the whole string is one placeholder token
IsToken(s) == TokenAt(s, 1, Len(s))
TokenName(s) == SubSeq(s, 3, Len(s) - 1)

\* NAME has a value in the dotenv mapping or in the process environment
HasValue(name) == name \in DictKeys(dotenv) \/ name \in DOMAIN environ

\* s contains a token whose NAME has no value anywhere
HasUnresolvedToken(s) ==
    \E i \in 1..Len(s), e \in 1..Len(s) :
        TokenAt(s, i, e) /\ ~HasValue(SubSeq(s, i + 2, e - 1))

\* the providers main has visited, as they were loaded
LoadedProviders == Get(cfg0, "providers").items
VisitedName(i) == LoadedProviders[i][1]
VisitedInfo(i) == LoadedProviders[i][2]
VisitedApiKey(i) == Get(VisitedInfo(i), "apiKey")
VisitedResolvedKey(i) == Get(resolve_placeholders(VisitedInfo(i), dotenv, environ), "apiKey")

\* the apiKey status lines printed for a provider, the primary-model lines
StatusLines(name) == SelectSeq(output, LAMBDA l : l.prov = name /\ l.k \in StatusKinds)
PrimaryLines == SelectSeq(output, LAMBDA l : l.k \in PrimaryKinds)
AllStatusLines == SelectSeq(output, LAMBDA l : l.k \in StatusKinds)

\* agents.defaults.model.primary of the loaded config, None when there is none
LoadedAgents == Get(cfg0, "agents")
LoadedPrimary ==
    IF LoadedAgents.t # "dict" THEN None
    ELSE LET d == Get(LoadedAgents, "defaults")
         IN  IF d.t # "dict" THEN None
             ELSE LET m == Get(d, "model")
                  IN  IF m.t # "dict" THEN None ELSE Get(m, "primary")

-----------------------------------------------------------------------------
(* C1: a fatal condition of main (config file absent, or providers missing   *)
(* or empty in the loaded mapping) prints its message, exits with status 1, *)
(* and no provider line, agents line or completion line is ever printed.    *)

ConfigAbsent == ~cfgFile.exists
ProvidersMissingOrEmpty ==
    /\ cfgFile.exists
    /\ cfgFile.content.t = "dict"
    /\ \/ ~HasKey(cfgFile.content.items, "providers")
       \/ Get(cfgFile.content, "providers") = Dict(<<>>)

C1_FatalExit ==
    /\ (ConfigAbsent /\ ConfigLoaded) =>
          /\ pc = "exited" /\ exitStatus = 1
          /\ output = <<Line("not_found", <<>>, None)>>
    /\ (ProvidersMissingOrEmpty /\ pc \in {"providers", "done", "exited"}) =>
          /\ pc = "exited" /\ exitStatus = 1
          /\ output = <<Line("no_providers", <<>>, None)>>
    /\ (ConfigAbsent \/ ProvidersMissingOrEmpty) =>
          /\ \A i \in 1..Len(output) : output[i].k \in FatalKinds
          /\ exitStatus \in {NoStatus, 1}

C1_Witness ==
    /\ pc = "exited" /\ exitStatus = 1
    /\ ProvidersMissingOrEmpty
    /\ Get(cfgFile.content, "agents") # None
    /\ output = <<Line("no_providers", <<>>, None)>>

-----------------------------------------------------------------------------
(* C2: after the injection loop every variable that was in the process      *)
(* environment before the run, with any value, the empty string included,   *)
(* has the value it had; only names that were not present are added.        *)

C2_NeverOverwrites ==
    pc # "start" =>
        \A k \in DOMAIN environ0 : k \in DOMAIN environ /\ environ[k] = environ0[k]

-----------------------------------------------------------------------------
(* C4: for a config with a non-empty providers mapping the run never ends   *)
(* fatally: it visits the providers in mapping order, prints exactly one    *)
(* apiKey status line for each, and ends with the completion line and exit  *)
(* status 0.                                                                *)

ProvidersNonEmpty ==
    /\ cfgFile.exists
    /\ cfgFile.content.t = "dict"
    /\ Truthy(Get(cfgFile.content, "providers"))

C4_WarningsNeverFatal ==
    ProvidersNonEmpty =>
        /\ exitStatus \in {NoStatus, 0}
        /\ pc \notin {"raised", "exited"}
        /\ pc = "done" =>
              LET ps == Get(cfgFile.content, "providers").items
              IN  /\ exitStatus = 0
                  /\ Len(AllStatusLines) = Len(ps)
                  /\ \A i \in 1..Len(ps) : AllStatusLines[i].prov = ps[i][1]
                  /\ output[Len(output)].k = "complete"

-----------------------------------------------------------------------------
(* C5 as stated: a provider whose apiKey string contains a token whose NAME *)
(* has no value in the dotenv mapping or the process environment gets a     *)
(* WARNING line and no masked line; a primary model that contains such a    *)
(* token gets a WARNING line and no plain primary-model line.               *)

C5_EveryUnresolvedWarns ==
    /\ pc \in {"providers", "done"} =>
          \A i \in 1..idx :
              (VisitedApiKey(i).t = "str" /\ HasUnresolvedToken(VisitedApiKey(i).s)) =>
                  /\ Len(StatusLines(VisitedName(i))) = 1
                  /\ StatusLines(VisitedName(i))[1].k = "warning"
    /\ pc = "done" =>
          ((LoadedPrimary.t = "str" /\ HasUnresolvedToken(LoadedPrimary.s)) =>
              /\ Len(PrimaryLines) = 1
              /\ PrimaryLines[1].k = "primary_warning")

(* C5 as amended: a provider whose apiKey string is one token whose NAME    *)
(* has no value in the dotenv mapping or the process environment never gets *)
(* a masked line; it gets a WARNING line, unless the convention variable    *)
(* OPENCLAW_<NAME>_API_KEY is set to a non-empty value, in which case it    *)
(* gets the line that reports that variable as present.  A primary model    *)
(* that is one such token gets a WARNING line and no plain line.            *)

IsUnresolvedToken(x) == x.t = "str" /\ IsToken(x.s) /\ ~HasValue(TokenName(x.s))

C5_UnresolvedTokenWarns ==
    /\ pc \in {"providers", "done"} =>
          \A i \in 1..idx :
              IsUnresolvedToken(VisitedApiKey(i)) =>
                  LET ls == StatusLines(VisitedName(i))
                      conv == ConventionName(VisitedName(i))
                  IN  /\ Len(ls) = 1
                      /\ ls[1].k # "masked"
                      /\ IF conv \in DOMAIN environ /\ environ[conv] # <<>>
                         THEN ls[1] = Line("env_present", VisitedName(i), Str(conv))
                         ELSE ls[1].k = "warning"
    /\ pc = "done" =>
          (IsUnresolvedToken(LoadedPrimary) =>
              /\ Len(PrimaryLines) = 1
              /\ PrimaryLines[1] = Line("primary_warning", <<>>, LoadedPrimary))

C5_Witness ==
    /\ pc = "done"
    /\ idx = 2
    /\ IsUnresolvedToken(VisitedApiKey(2))
    /\ StatusLines(VisitedName(2))[1].k = "warning"
    /\ IsUnresolvedToken(VisitedApiKey(1))
    /\ StatusLines(VisitedName(1))[1].k = "env_present"
    /\ IsUnresolvedToken(LoadedPrimary)
    /\ PrimaryLines[1].k = "primary_warning"

-----------------------------------------------------------------------------
(* C6: a provider whose resolved apiKey is a non-empty string that does not *)
(* start with ${ gets exactly one status line, the masked one; it shows the *)
(* first 4 characters, three dots and the last 4 characters of a key longer *)
(* than 8 characters, which is not the key, and **** for a key of 8         *)
(* characters or fewer; the key from dotenv KEY=sk_1234567890 is shown as   *)
(* sk_1...7890.                                                             *)

Shown(i) == StatusLines(VisitedName(i))[1].v.s

C6_Masking ==
    pc \in {"providers", "done"} =>
        \A i \in 1..idx :
            LET key == VisitedResolvedKey(i)
            IN  (key.t = "str" /\ key.s # <<>> /\ ~StartsWith(key.s, <<"$", "{">>)) =>
                    /\ Len(StatusLines(VisitedName(i))) = 1
                    /\ StatusLines(VisitedName(i))[1].k = "masked"
                    /\ Len(key.s) > 8 =>
                          /\ Len(Shown(i)) = 11
                          /\ \A j \in 1..4 : Shown(i)[j] = key.s[j]
                          /\ \A j \in 5..7 : Shown(i)[j] = "."
                          /\ \A j \in 8..11 : Shown(i)[j] = key.s[Len(key.s) - 11 + j]
                          /\ Shown(i) # key.s
                    /\ Len(key.s) <= 8 => Shown(i) = <<"*", "*", "*", "*">>
                    /\ key.s = secret =>
                          Shown(i) = <<"s", "k", "_", "1", ".", ".", ".", "7", "8", "9", "0">>

C6_Witness ==
    /\ pc = "done"
    /\ idx = 2
    /\ VisitedApiKey(1) = Str(Token(KEY))
    /\ VisitedResolvedKey(1) = Str(secret)
    /\ StatusLines(VisitedName(1))[1] =
          Line("masked", VisitedName(1),
               Str(<<"s", "k", "_", "1", ".", ".", ".", "7", "8", "9", "0">>))
    /\ VisitedResolvedKey(2) = Str(eight)
    /\ StatusLines(VisitedName(2))[1] = Line("masked", VisitedName(2), Str(<<"*", "*", "*", "*">>))

-----------------------------------------------------------------------------
(* C8: for a provider whose resolved apiKey is absent, empty, not a string  *)
(* or still starts with ${, the candidates are the NAME of the original     *)
(* apiKey if and only if that value is a token ${NAME} with NAME made of    *)
(* letters, digits and underscores, followed by OPENCLAW_<NAME>_API_KEY;    *)
(* the first candidate that is set is reported as present, and when none is *)
(* set one warning lists all the candidates.                                *)

ClaimedCandidates(i) ==
    (IF VisitedApiKey(i).t = "str" /\ IsToken(VisitedApiKey(i).s)
     THEN <<TokenName(VisitedApiKey(i).s)>> ELSE <<>>)
    \o <<OpenclawPrefix \o StrUpper(VisitedName(i)) \o ApiKeySuffix>>

IsSet(name) == name \in DOMAIN environ /\ environ[name] # <<>>

C8_FallbackCandidates ==
    pc \in {"providers", "done"} =>
        \A i \in 1..idx :
            LET key == VisitedResolvedKey(i)
                cands == ClaimedCandidates(i)
                ls == StatusLines(VisitedName(i))
            IN  ~(key.t = "str" /\ key.s # <<>> /\ ~StartsWith(key.s, <<"$", "{">>)) =>
                    /\ Len(ls) = 1
                    /\ IF \E c \in 1..Len(cands) : IsSet(cands[c])
                       THEN LET first == CHOOSE c \in 1..Len(cands) :
                                            /\ IsSet(cands[c])
                                            /\ \A b \in 1..(c - 1) : ~IsSet(cands[b])
                            IN  ls[1] = Line("env_present", VisitedName(i), Str(cands[first]))
                       ELSE ls[1] = Line("warning", VisitedName(i),
                                         List([c \in 1..Len(cands) |-> Str(cands[c])]))

-----------------------------------------------------------------------------
(* C9: with a non-empty agents section exactly one primary-model line is    *)
(* printed: "no primary model set" when there is no primary; otherwise,     *)
(* for the resolved value, "resolved from env" when it is a token ${NAME}   *)
(* and NAME is set, a warning when it is a token and NAME is not set, and   *)
(* the value itself when it is not a token.  Without an agents section no   *)
(* agents line is printed and the run completes.                            *)

C9_PrimaryModel ==
    pc = "done" =>
        IF LoadedAgents.t = "dict" /\ LoadedAgents.items # <<>>
        THEN /\ Len(PrimaryLines) = 1
             /\ LET r == resolve_placeholders(LoadedPrimary, dotenv, environ)
                IN  IF LoadedPrimary = None \/ LoadedPrimary = Str(<<>>)
                    THEN PrimaryLines[1].k = "no_primary"
                    ELSE IF r.t = "str" /\ IsToken(r.s)
                    THEN IF IsSet(TokenName(r.s))
                         THEN PrimaryLines[1] = Line("primary_env", <<>>, Str(TokenName(r.s)))
                         ELSE PrimaryLines[1] = Line("primary_warning", <<>>, r)
                    ELSE PrimaryLines[1] = Line("primary", <<>>, r)
        ELSE /\ PrimaryLines = <<>>
             /\ \A i \in 1..Len(output) : output[i].k # "agents_found"
             /\ exitStatus = 0

-----------------------------------------------------------------------------
(* C10: after load_config has returned the config is the value that was     *)
(* loaded; the value resolve_placeholders returns for a provider record has *)
(* the shape of the record: the same keys in the same order, sequences of   *)
(* the same length, the scalars that are not strings unchanged.             *)

RECURSIVE SameShape(_, _)
SameShape(x, y) ==
    /\ x.t = y.t
    /\ CASE x.t = "dict" ->
              /\ Len(x.items) = Len(y.items)
              /\ \A i \in 1..Len(x.items) :
                    /\ x.items[i][1] = y.items[i][1]
                    /\ SameShape(x.items[i][2], y.items[i][2])
         [] x.t = "list" ->
              /\ Len(x.items) = Len(y.items)
              /\ \A i \in 1..Len(x.items) : SameShape(x.items[i], y.items[i])
         [] x.t = "str" -> TRUE
         [] OTHER -> x = y

C10_ConfigNotMutated ==
    /\ ConfigLoaded => (cfg = cfg0 /\ (cfgFile.exists => cfg = cfgFile.content))
    /\ (pc \in {"providers", "done"} /\ idx >= 1) =>
          /\ SameShape(VisitedInfo(idx), resolved)
          /\ Get(cfg, "providers").items[idx][2] = VisitedInfo(idx)

C10_Witness ==
    /\ pc = "providers"
    /\ idx = 1
    /\ VisitedApiKey(1) = Str(Token(KEY))
    /\ Get(resolved, "apiKey") = Str(secret)
    /\ Get(Get(cfg, "providers").items[1][2], "apiKey") = Str(Token(KEY))
    /\ Len(Get(resolved, "models").items) = 2

-----------------------------------------------------------------------------
(* load_dotenv under test: the lines of the file are drawn one at a time as *)
(* the loop reads them; arg is the line read last, before the dict the loop *)
(* had when it read it.                                                     *)

DotenvChars == {" ", "#", "=", DQ, SQ, "k"}
RawLines == SeqsUpTo(DotenvChars, MaxLineLen)

InitDotenv ==
    /\ pc = "dotenv_start"
    /\ envFile \in {NoFile, File(<<>>)}
    /\ cfgFile = NoFile
    /\ environ = <<>>
    /\ environ0 = <<>>
    /\ dotenv = <<>>
    /\ cfg = None
    /\ cfg0 = None
    /\ idx = 0
    /\ resolved = None
    /\ output = <<>>
    /\ exitStatus = NoStatus
    /\ arg = <<>>
    /\ before = <<>>

\* env = {}; if not path.exists(): return env
DotenvOpen ==
    /\ pc = "dotenv_start"
    /\ dotenv' = <<>>
    /\ pc' = IF envFile.exists THEN "dotenv_loop" ELSE "dotenv_returned"
    /\ UNCHANGED <<envFile, cfgFile, environ, environ0, cfg, cfg0, idx, resolved, output,
                   exitStatus, arg, before>>

\* one iteration of the loop over the lines
DotenvLine ==
    /\ pc = "dotenv_loop"
    /\ idx < MaxLines
    /\ \E raw \in RawLines :
          /\ arg' = raw
          /\ before' = dotenv
          /\ dotenv' = LoadLine(dotenv, raw)
    /\ idx' = idx + 1
    /\ UNCHANGED <<pc, envFile, cfgFile, environ, environ0, cfg, cfg0, resolved, output,
                   exitStatus>>

\* the file has no more lines: return env
DotenvReturn ==
    /\ pc = "dotenv_loop"
    /\ pc' = "dotenv_returned"
    /\ UNCHANGED <<envFile, cfgFile, environ, environ0, dotenv, cfg, cfg0, idx, resolved,
                   output, exitStatus, arg, before>>

NextDotenv ==
    \/ DotenvOpen
    \/ DotenvLine
    \/ DotenvReturn

SpecDotenv == InitDotenv /\ [][NextDotenv]_vars

-----------------------------------------------------------------------------
(* C7: load_dotenv returns the empty mapping for a missing file; a line     *)
(* that, trimmed, is empty, starts with # or has no = adds no entry; any    *)
(* other line adds the entry whose key is the trimmed text before the first *)
(* = and whose value is the trimmed text after it without one surrounding   *)
(* pair of matching quotes.                                                 *)

NonBlank(s) == {i \in 1..Len(s) : s[i] \notin Whitespace}
Least(S) == CHOOSE i \in S : \A j \in S : i <= j
Greatest(S) == CHOOSE i \in S : \A j \in S : i >= j

Trimmed(s) ==
    IF NonBlank(s) = {} THEN <<>> ELSE SubSeq(s, Least(NonBlank(s)), Greatest(NonBlank(s)))

Separators(s) == {i \in 1..Len(s) : s[i] = "="}

Contributes(raw) ==
    /\ Trimmed(raw) # <<>>
    /\ Trimmed(raw)[1] # "#"
    /\ Separators(Trimmed(raw)) # {}

ClaimedKey(raw) ==
    LET line == Trimmed(raw) IN Trimmed(SubSeq(line, 1, Least(Separators(line)) - 1))

WithoutQuotePair(v) ==
    IF Len(v) >= 2 /\ v[1] = v[Len(v)] /\ v[1] \in {DQ, SQ}
    THEN SubSeq(v, 2, Len(v) - 1)
    ELSE v

ClaimedValue(raw) ==
    LET line == Trimmed(raw)
    IN  WithoutQuotePair(Trimmed(SubSeq(line, Least(Separators(line)) + 1, Len(line))))

Entries(d) == {d[i] : i \in 1..Len(d)}

C7_DotenvEntries ==
    /\ (pc = "dotenv_returned" /\ ~envFile.exists) => dotenv = <<>>
    /\ (pc \in {"dotenv_loop", "dotenv_returned"} /\ idx >= 1) =>
          /\ Len(dotenv) = Cardinality(DictKeys(dotenv))
          /\ IF Contributes(arg)
             THEN Entries(dotenv) =
                    {e \in Entries(before) : e[1] # ClaimedKey(arg)}
                    \cup {<<ClaimedKey(arg), ClaimedValue(arg)>>}
             ELSE Entries(dotenv) = Entries(before)

-----------------------------------------------------------------------------
(* resolve_placeholders under test on strings *)

NameA == <<"A">>
NameB == <<"B", "_", "1">>

Parts ==
    { <<"$">>, <<"{">>, <<"}">>, <<"A">>, <<"-">>, <<"$", "{">>, Token(NameA), Token(NameB) }

RECURSIVE Concats(_)
Concats(n) ==
    IF n = 0 THEN {<<>>}
    ELSE Concats(n - 1) \cup {s \o q : s \in Concats(n - 1), q \in Parts}

\* dotenv mappings and process environments of the test
TestEnvMaps ==
    { a \o b : a \in {<<>>} \cup { << <<NameA, v>> >> : v \in {<<>>, <<"v">>, Token(NameB)} },
               b \in {<<>>, << <<NameB, <<"w">>>> >>} }

TestEnvirons ==
    { [n \in S |-> IF n = NameA THEN <<"p">> ELSE v] : S \in SUBSET {NameA, NameB},
                                                       v \in {<<>>, <<"q">>} }

InitResolve ==
    /\ pc = "resolve_start"
    /\ arg \in Concats(MaxParts)
    /\ dotenv \in TestEnvMaps
    /\ environ \in TestEnvirons
    /\ environ0 = environ
    /\ envFile = NoFile
    /\ cfgFile = NoFile
    /\ cfg = None
    /\ cfg0 = None
    /\ idx = 0
    /\ resolved = None
    /\ output = <<>>
    /\ exitStatus = NoStatus
    /\ before = <<>>

\* the call resolve_placeholders(arg, dotenv)
Resolve ==
    /\ pc = "resolve_start"
    /\ resolved' = resolve_placeholders(Str(arg), dotenv, environ)
    /\ pc' = "resolve_returned"
    /\ UNCHANGED <<envFile, cfgFile, environ, environ0, dotenv, cfg, cfg0, idx, output,
                   exitStatus, arg, before>>

NextResolve == Resolve

SpecResolve == InitResolve /\ [][NextResolve]_vars

-----------------------------------------------------------------------------
(* C3: the result of resolve_placeholders on a string is the string with    *)
(* every token ${NAME} replaced by the value of NAME in the supplied        *)
(* mapping, else by its value in the process environment, else left as it   *)
(* is; every character outside the tokens is kept, and the call returns     *)
(* for every name.                                                          *)

ValueIn(d, name) == (CHOOSE e \in Entries(d) : e[1] = name)[2]

Replacement(s, i, e) ==
    LET name == SubSeq(s, i + 2, e - 1)
    IN  IF name \in DictKeys(dotenv) THEN ValueIn(dotenv, name)
        ELSE IF name \in DOMAIN environ THEN environ[name]
        ELSE SubSeq(s, i, e)

\* what position i of s contributes to the result
Piece(s, i) ==
    IF \E e \in i..Len(s) : TokenAt(s, i, e)
    THEN Replacement(s, i, CHOOSE e \in i..Len(s) : TokenAt(s, i, e))
    ELSE IF \E a \in 1..(i - 1), e \in i..Len(s) : TokenAt(s, a, e)
    THEN <<>>
    ELSE <<s[i]>>

RECURSIVE Pieces(_, _)
Pieces(s, i) == IF i > Len(s) THEN <<>> ELSE Piece(s, i) \o Pieces(s, i + 1)

C3_ResolveString ==
    pc = "resolve_returned" =>
        /\ resolved = Str(Pieces(arg, 1))
        /\ (\A i \in 1..Len(arg), e \in 1..Len(arg) : ~TokenAt(arg, i, e)) => resolved = Str(arg)

C3_Witness ==
    /\ pc = "resolve_returned"
    /\ arg = <<"-">> \o Token(NameA) \o Token(NameB)
    /\ NameA \in DictKeys(dotenv) /\ NameA \in DOMAIN environ
    /\ NameB \notin DictKeys(dotenv) /\ NameB \notin DOMAIN environ
    /\ resolved = Str(<<"-", "v">> \o Token(NameB))

====
